---------------------------- MODULE Spec2Model ----------------------------
(***************************************************************************)
(* AutoLinker (src/main.ts): an index of link targets kept up to date by   *)
(* vault events, a matcher over it, and the phrase scan around the cursor  *)
(* used by the suggestion popup and by the quick-link command.             *)
(*                                                                         *)
(* A string is a sequence of characters; a character is written as a       *)
(* one-element TLA+ string, except the two code points that have no ASCII  *)
(* spelling: "eacute" (U+00E9) and "acute" (the combining mark U+0301).    *)
(***************************************************************************)
EXTENDS Integers, Sequences, FiniteSets, TLC

(***************************************************************************)
(* Characters and the character classes of the regular expressions.        *)
(***************************************************************************)
LowerChars == {"a", "b", "e"}
UpperChars == {"A", "B"}
DigitChars == {"1"}

\* \w (ASCII only, also under the u flag): [A-Za-z0-9_]
IsWordChar(c) == c \in LowerChars \cup UpperChars \cup DigitChars \cup {"_"}

\* \p{L} or \p{N}
IsLetterOrNumber(c) == c \in LowerChars \cup UpperChars \cup DigitChars \cup {"eacute"}

\* the class [\w\p{L}\p{N}'-] of the word regex
IsPhraseChar(c) == IsWordChar(c) \/ IsLetterOrNumber(c) \/ c \in {"'", "-"}

\* /[.!?]/
IsTerminator(c) == c \in {".", "!", "?"}

\* /\s/
IsSpace(c) == c = " "

\* the combining diacritical marks U+0300..U+036F
IsCombiningMark(c) == c = "acute"

(***************************************************************************)
(* String helpers with the semantics of the JavaScript built-ins.          *)
(***************************************************************************)
Min(a, b) == IF a <= b THEN a ELSE b
Max(a, b) == IF a >= b THEN a ELSE b

\* String.prototype.substring(from, to) with 0-based indexes: both are
\* clamped to 0..length and swapped when from > to.
Substring(s, from, to) ==
    LET f == Min(Max(from, 0), Len(s))
        t == Min(Max(to, 0), Len(s))
        lo == Min(f, t)
        hi == Max(f, t)
    IN  SubSeq(s, lo + 1, hi)

\* s[i] with a 0-based index; "undefined" outside the string, which no
\* regular expression of the program matches as a single character class.
CharAt(s, i) == IF i >= 0 /\ i < Len(s) THEN s[i + 1] ELSE "undefined"

RECURSIVE Concat(_)
Concat(ss) == IF ss = <<>> THEN <<>> ELSE Head(ss) \o Concat(Tail(ss))

ToLowerChar(c) ==
    CASE c = "A" -> "a"
      [] c = "B" -> "b"
      [] OTHER -> c

\* String.prototype.toLowerCase
ToLowerCase(s) == [i \in 1..Len(s) |-> ToLowerChar(s[i])]

\* canonical decomposition of one character
NFDChar(c) == IF c = "eacute" THEN <<"e", "acute">> ELSE <<c>>

\* String.prototype.normalize('NFD')
NFD(s) == Concat([i \in 1..Len(s) |-> NFDChar(s[i])])

\* String.prototype.trim
RECURSIVE TrimLeft(_)
TrimLeft(s) == IF s # <<>> /\ IsSpace(Head(s)) THEN TrimLeft(Tail(s)) ELSE s
RECURSIVE TrimRight(_)
TrimRight(s) ==
    IF s # <<>> /\ IsSpace(s[Len(s)]) THEN TrimRight(SubSeq(s, 1, Len(s) - 1)) ELSE s
Trim(s) == TrimRight(TrimLeft(s))

\* String.prototype.split(',') on a non-empty separator
RECURSIVE SplitComma(_, _)
SplitComma(s, cur) ==
    IF s = <<>> THEN <<cur>>
    ELSE IF Head(s) = "," THEN <<cur>> \o SplitComma(Tail(s), <<>>)
    ELSE SplitComma(Tail(s), Append(cur, Head(s)))

\* String.prototype.startsWith
StartsWith(s, p) == Len(p) <= Len(s) /\ SubSeq(s, 1, Len(p)) = p

\* String.prototype.indexOf(c, from) for a one-character c, 0-based, -1 if absent
IndexOf(s, c, from) ==
    LET hits == {i \in Max(from, 0)..(Len(s) - 1) : s[i + 1] = c}
    IN  IF hits = {} THEN -1 ELSE CHOOSE i \in hits : \A j \in hits : i <= j

(***************************************************************************)
(* normalizeText and fuzzyMatch.                                           *)
(***************************************************************************)
normalizeText(text) ==
    LET decomposed == NFD(text)
        unmarked   == SelectSeq(decomposed, LAMBDA c : ~IsCombiningMark(c))
        lowered    == ToLowerCase(unmarked)
    IN  SelectSeq(lowered, IsLetterOrNumber)

RECURSIVE FuzzyLoop(_, _, _)
FuzzyLoop(queryChars, textLower, searchIndex) ==
    IF queryChars = <<>> THEN TRUE
    ELSE LET foundIndex == IndexOf(textLower, Head(queryChars), searchIndex)
         IN  IF foundIndex = -1 THEN FALSE
             ELSE FuzzyLoop(Tail(queryChars), textLower, foundIndex + 1)

fuzzyMatch(query, text) == FuzzyLoop(ToLowerCase(query), ToLowerCase(text), 0)

(***************************************************************************)
(* The index: a Map<string, IndexEntry[]>.  A JavaScript Map iterates in   *)
(* insertion order and set() on a present key keeps its place, so the map  *)
(* is a sequence of buckets [key, entries].                                *)
(*                                                                         *)
(* A path is the record [dir, base, ext] of "dir/base.ext"; a TFile's      *)
(* basename and extension are its fields.  An IndexEntry is the record     *)
(* [type, notePath, noteTitle, target, displayText].                       *)
(***************************************************************************)
MapHas(idx, k) == \E i \in 1..Len(idx) : idx[i].key = k

MapGet(idx, k) ==
    IF MapHas(idx, k)
    THEN idx[CHOOSE i \in 1..Len(idx) : idx[i].key = k].entries
    ELSE <<>>

MapSet(idx, k, v) ==
    IF MapHas(idx, k)
    THEN [i \in 1..Len(idx) |-> IF idx[i].key = k THEN [key |-> k, entries |-> v] ELSE idx[i]]
    ELSE Append(idx, [key |-> k, entries |-> v])

\* the (type, notePath, target) comparison of addToIndex and getSuggestions
SameTriple(a, b) == a.type = b.type /\ a.notePath = b.notePath /\ a.target = b.target

addToIndex(idx, key, entry) ==
    LET normalizedKey == normalizeText(key)
        entries == MapGet(idx, normalizedKey)
        pushed ==
            IF ~(\E i \in 1..Len(entries) : SameTriple(entries[i], entry))
            THEN Append(entries, entry)
            ELSE entries
    IN  MapSet(idx, normalizedKey, pushed)

\* deleteFromIndex without the else branch: a bucket left empty stays
deleteFromIndexKeepEmpty(idx, path) ==
    [i \in 1..Len(idx) |->
        [key |-> idx[i].key,
         entries |-> SelectSeq(idx[i].entries, LAMBDA e : e.notePath # path)]]

\* deleteFromIndex deleting every bucket that holds an entry of the path
deleteFromIndexDropBucket(idx, path) ==
    SelectSeq(idx, LAMBDA b : \A j \in 1..Len(b.entries) : b.entries[j].notePath # path)

\* every bucket is filtered; a bucket left empty is deleted, the others keep
\* their place
deleteFromIndex(idx, path) ==
    LET filtered == [i \in 1..Len(idx) |->
                        [key |-> idx[i].key,
                         entries |-> SelectSeq(idx[i].entries, LAMBDA e : e.notePath # path)]]
    IN  SelectSeq(filtered, LAMBDA b : Len(b.entries) > 0)

\* renameInIndex that looks for the entries of the new path
renameInIndexByNewPath(idx, file, oldPath) ==
    [i \in 1..Len(idx) |->
        [key |-> idx[i].key,
         entries |-> [j \in 1..Len(idx[i].entries) |->
            LET entry == idx[i].entries[j]
            IN  IF entry.notePath = file.path
                THEN [entry EXCEPT !.notePath = file.path, !.noteTitle = file.path.base]
                ELSE entry]]]

\* file is the TFile after the rename (it carries the new path)
renameInIndex(idx, file, oldPath) ==
    [i \in 1..Len(idx) |->
        [key |-> idx[i].key,
         entries |-> [j \in 1..Len(idx[i].entries) |->
            LET entry == idx[i].entries[j]
            IN  IF entry.notePath = oldPath
                THEN [entry EXCEPT !.notePath = file.path, !.noteTitle = file.path.base]
                ELSE entry]]]

(***************************************************************************)
(* indexFile.  metadata is what metadataCache.getFileCache(file) returns:  *)
(* NoMetadata (null) or [tags, headings, sections] where                   *)
(*   tags is frontmatter.tags: NoTags, [kind |-> "array", items |-> ...]   *)
(*        or [kind |-> "string", text |-> ...];                            *)
(*   headings is the sequence of heading texts;                            *)
(*   sections is the sequence of section ids, <<>> for a section with no   *)
(*        id.                                                              *)
(***************************************************************************)
NoMetadata == [kind |-> "null"]
NoTags == [kind |-> "none"]

\* the tags array of line 324; an empty string is falsy at line 323
TagList(tags) ==
    IF tags.kind = "array" THEN tags.items
    ELSE IF tags.kind = "string" /\ tags.text # <<>> THEN SplitComma(tags.text, <<>>)
    ELSE <<>>

TitleEntry(notePath, noteTitle) ==
    [type |-> "title", notePath |-> notePath, noteTitle |-> noteTitle,
     target |-> noteTitle, displayText |-> noteTitle]

TagEntry(notePath, noteTitle, cleanTag) ==
    [type |-> "tag", notePath |-> notePath, noteTitle |-> noteTitle,
     target |-> cleanTag, displayText |-> <<"#">> \o cleanTag]

HeadingEntry(notePath, noteTitle, heading) ==
    [type |-> "heading", notePath |-> notePath, noteTitle |-> noteTitle,
     target |-> heading, displayText |-> noteTitle \o <<" ", ">", " ">> \o heading]

BlockEntry(notePath, noteTitle, id) ==
    [type |-> "block", notePath |-> notePath, noteTitle |-> noteTitle,
     target |-> id, displayText |-> noteTitle \o <<" ", ">", " ", "#">> \o id]

RECURSIVE AddTags(_, _, _, _)
AddTags(idx, notePath, noteTitle, tags) ==
    IF tags = <<>> THEN idx
    ELSE LET cleanTag == Trim(Head(tags))
         IN  AddTags(addToIndex(idx, cleanTag, TagEntry(notePath, noteTitle, cleanTag)),
                     notePath, noteTitle, Tail(tags))

RECURSIVE AddHeadings(_, _, _, _)
AddHeadings(idx, notePath, noteTitle, headings) ==
    IF headings = <<>> THEN idx
    ELSE AddHeadings(addToIndex(idx, Head(headings),
                                HeadingEntry(notePath, noteTitle, Head(headings))),
                     notePath, noteTitle, Tail(headings))

RECURSIVE AddBlocks(_, _, _, _)
AddBlocks(idx, notePath, noteTitle, sections) ==
    IF sections = <<>> THEN idx
    ELSE IF Head(sections) # <<>>
    THEN AddBlocks(addToIndex(idx, Head(sections),
                              BlockEntry(notePath, noteTitle, Head(sections))),
                   notePath, noteTitle, Tail(sections))
    ELSE AddBlocks(idx, notePath, noteTitle, Tail(sections))

indexFile(idx, file, metadata) ==
    IF file.path.ext # "md" THEN idx
    ELSE LET noteTitle == file.path.base
             notePath  == file.path
             withTitle == addToIndex(idx, noteTitle, TitleEntry(notePath, noteTitle))
         IN  IF metadata = NoMetadata THEN withTitle
             ELSE AddBlocks(
                    AddHeadings(
                      AddTags(withTitle, notePath, noteTitle, TagList(metadata.tags)),
                      notePath, noteTitle, metadata.headings),
                    notePath, noteTitle, metadata.sections)

(***************************************************************************)
(* getSuggestions: prefix pass, fuzzy pass, first-occurrence filter, cap.  *)
(***************************************************************************)
MaxSuggestions == 100

WithScore(entries, score) ==
    [i \in 1..Len(entries) |->
        [type |-> entries[i].type, notePath |-> entries[i].notePath,
         noteTitle |-> entries[i].noteTitle, target |-> entries[i].target,
         displayText |-> entries[i].displayText, score |-> score]]

\* the two for-loops of lines 366-373; half-scores are kept as integers:
\* score 0 is ScoreExact, score 0.5 is ScoreFuzzy
ScoreExact == 0
ScoreFuzzy == 5

prefixPass(idx, normalizedQuery) ==
    Concat([i \in 1..Len(idx) |->
        IF StartsWith(idx[i].key, normalizedQuery)
        THEN WithScore(idx[i].entries, ScoreExact) ELSE <<>>])

fuzzyPass(idx, normalizedQuery) ==
    Concat([i \in 1..Len(idx) |->
        IF fuzzyMatch(normalizedQuery, idx[i].key)
        THEN WithScore(idx[i].entries, ScoreFuzzy) ELSE <<>>])

\* self.findIndex(m => same triple) searched from position i, 1-based
RECURSIVE findIndexTriple(_, _, _)
findIndexTriple(self, match, i) ==
    IF i > Len(self) THEN 0
    ELSE IF SameTriple(self[i], match) THEN i
    ELSE findIndexTriple(self, match, i + 1)

\* allMatches.filter((match, index, self) => index === self.findIndex(...)),
\* from position i on
RECURSIVE uniqueFrom(_, _)
uniqueFrom(allMatches, i) ==
    IF i > Len(allMatches) THEN <<>>
    ELSE IF findIndexTriple(allMatches, allMatches[i], 1) = i
    THEN <<allMatches[i]>> \o uniqueFrom(allMatches, i + 1)
    ELSE uniqueFrom(allMatches, i + 1)

\* the filter keeping the last occurrence of a triple instead of the first
uniqueFilterKeepLast(allMatches) ==
    LET Rev(q) == [i \in 1..Len(q) |-> q[Len(q) + 1 - i]]
    IN  Rev(uniqueFrom(Rev(allMatches), 1))

uniqueFilter(allMatches) == uniqueFrom(allMatches, 1)

\* uniqueMatches.slice(0, 100)
sliceResults(uniqueMatches) ==
    SubSeq(uniqueMatches, 1, Min(Len(uniqueMatches), MaxSuggestions))

\* the matcher concatenating the fuzzy results before the prefix results
matchNormalizedFuzzyFirst(idx, normalizedQuery) ==
    IF normalizedQuery = <<>> THEN <<>>
    ELSE sliceResults(uniqueFilter(fuzzyPass(idx, normalizedQuery)
                                   \o prefixPass(idx, normalizedQuery)))

\* the matcher without the test of line 363
matchNormalizedNoEmptyCheck(idx, normalizedQuery) ==
    sliceResults(uniqueFilter(prefixPass(idx, normalizedQuery)
                              \o fuzzyPass(idx, normalizedQuery)))

\* lines 363-380, given the normalized query
matchNormalized(idx, normalizedQuery) ==
    IF normalizedQuery = <<>> THEN <<>>
    ELSE sliceResults(uniqueFilter(prefixPass(idx, normalizedQuery)
                                   \o fuzzyPass(idx, normalizedQuery)))

getSuggestions(idx, query) == matchNormalized(idx, normalizeText(query))

(***************************************************************************)
(* The phrase scan, written twice in the source (onTrigger, runQuickLink). *)
(* All offsets are 0-based as in the source; cursorWordIdx is -1 when no   *)
(* word touches the cursor.                                                *)
(***************************************************************************)
\* for (i = cursorCh - 1; i >= 0; i--) if terminator: sentenceStart = i + 1
sentenceStartOf(line, cursorCh) ==
    LET hits == {i \in 0..(cursorCh - 1) : IsTerminator(CharAt(line, i))}
    IN  IF hits = {} THEN 0
        ELSE (CHOOSE i \in hits : \A j \in hits : j <= i) + 1

\* the forward scan that never stops: the sentence runs to the end of the line
sentenceEndOfLine(line, cursorCh) == Len(line)

\* for (i = cursorCh; i < line.length; i++) if terminator: sentenceEnd = i
sentenceEndOf(line, cursorCh) ==
    LET hits == {i \in cursorCh..(Len(line) - 1) : IsTerminator(CharAt(line, i))}
    IN  IF hits = {} THEN Len(line)
        ELSE CHOOSE i \in hits : \A j \in hits : i <= j

\* while (sentenceStart < sentenceEnd && /\s/.test(line[sentenceStart])) sentenceStart++
RECURSIVE skipLeadingSpace(_, _, _)
skipLeadingSpace(line, sentenceStart, sentenceEnd) ==
    IF sentenceStart < sentenceEnd /\ IsSpace(CharAt(line, sentenceStart))
    THEN skipLeadingSpace(line, sentenceStart + 1, sentenceEnd)
    ELSE sentenceStart

\* while (sentenceEnd > sentenceStart && /\s/.test(line[sentenceEnd - 1])) sentenceEnd--
RECURSIVE skipTrailingSpace(_, _, _)
skipTrailingSpace(line, sentenceStart, sentenceEnd) ==
    IF sentenceEnd > sentenceStart /\ IsSpace(CharAt(line, sentenceEnd - 1))
    THEN skipTrailingSpace(line, sentenceStart, sentenceEnd - 1)
    ELSE sentenceEnd

\* \b at position i of s: exactly one of s[i-1], s[i] is a \w character
IsWordBoundary(s, i) == IsWordChar(CharAt(s, i - 1)) # IsWordChar(CharAt(s, i))

\* One exec of /\b\w[\w\p{L}\p{N}'-]*\b/gu from lastIndex: the leftmost start
\* at a boundary with a \w character, the greedy run of class characters,
\* backtracked to the last boundary.  NoWord when there is no further match.
NoWord == [start |-> -1, end |-> -1]

\* the regex without its closing \b: a match is the whole greedy run
wordRegexExecNoEndBoundary(sentence, lastIndex) ==
    LET starts == {i \in lastIndex..(Len(sentence) - 1) :
                      IsWordBoundary(sentence, i) /\ IsWordChar(CharAt(sentence, i))}
    IN  IF starts = {} THEN NoWord
        ELSE LET st == CHOOSE i \in starts : \A j \in starts : i <= j
                 stops == {j \in (st + 1)..Len(sentence) : ~IsPhraseChar(CharAt(sentence, j))}
             IN  [start |-> st,
                  end |-> IF stops = {} THEN Len(sentence)
                          ELSE CHOOSE j \in stops : \A k \in stops : j <= k]

wordRegexExec(sentence, lastIndex) ==
    LET starts == {i \in lastIndex..(Len(sentence) - 1) :
                      IsWordBoundary(sentence, i) /\ IsWordChar(CharAt(sentence, i))}
    IN  IF starts = {} THEN NoWord
        ELSE LET st == CHOOSE i \in starts : \A j \in starts : i <= j
                 stops == {j \in (st + 1)..Len(sentence) : ~IsPhraseChar(CharAt(sentence, j))}
                 runEnd == IF stops = {} THEN Len(sentence)
                           ELSE CHOOSE j \in stops : \A k \in stops : j <= k
                 ends == {k \in (st + 1)..runEnd : IsWordBoundary(sentence, k)}
             IN  [start |-> st, end |-> CHOOSE k \in ends : \A m \in ends : m <= k]

\* while ((match = wordRegex.exec(sentence)) !== null) wordsWithIndices.push(...)
RECURSIVE wordsFrom(_, _)
wordsFrom(sentence, lastIndex) ==
    LET m == wordRegexExec(sentence, lastIndex)
    IN  IF m = NoWord THEN <<>>
        ELSE <<[word |-> Substring(sentence, m.start, m.end), start |-> m.start, end |-> m.end]>>
             \o wordsFrom(sentence, m.end)

wordsWithIndicesOf(sentence) == wordsFrom(sentence, 0)

\* findIndex(w => cursorInSentence >= w.start && cursorInSentence <= w.end), then
\* the fallback findIndex(w => cursorInSentence === w.end)
cursorWordIdxOf(words, cursorInSentence) ==
    LET touching == {i \in 0..(Len(words) - 1) :
                        cursorInSentence >= words[i + 1].start /\ cursorInSentence <= words[i + 1].end}
        atEnd == {i \in 0..(Len(words) - 1) : cursorInSentence = words[i + 1].end}
    IN  IF touching # {} THEN CHOOSE i \in touching : \A j \in touching : i <= j
        ELSE IF atEnd # {} THEN CHOOSE i \in atEnd : \A j \in atEnd : i <= j
        ELSE -1

(***************************************************************************)
(* AutoLinkerSuggest.onTrigger: NoTrigger (null) or the trigger info.      *)
(***************************************************************************)
NoTrigger == [kind |-> "null"]

\* the loops without the test that the candidate contains the cursor word
RECURSIVE suggestLoopAnySpan(_, _, _, _, _, _, _)
suggestLoopAnySpan(idx, sentence, sentenceOffset, words, cursorWordIdx, span, offset) ==
    IF span < 1 THEN NoTrigger
    ELSE IF offset > Len(words) - span
    THEN suggestLoopAnySpan(idx, sentence, sentenceOffset, words, cursorWordIdx, span - 1, 0)
    ELSE LET phraseStart == words[offset + 1].start
             phraseEnd == words[offset + span].end
             phrase == Substring(sentence, phraseStart, phraseEnd)
         IN  IF Len(getSuggestions(idx, phrase)) > 0
             THEN [kind |-> "info", start |-> sentenceOffset + phraseStart,
                   end |-> sentenceOffset + phraseEnd, query |-> phrase]
             ELSE suggestLoopAnySpan(idx, sentence, sentenceOffset, words, cursorWordIdx, span, offset + 1)

\* the two nested for-loops of lines 431-447
RECURSIVE suggestLoop(_, _, _, _, _, _, _)
suggestLoop(idx, sentence, sentenceOffset, words, cursorWordIdx, span, offset) ==
    IF span < 1 THEN NoTrigger
    ELSE IF offset > Len(words) - span
    THEN suggestLoop(idx, sentence, sentenceOffset, words, cursorWordIdx, span - 1, 0)
    ELSE LET startIdx == offset
             endIdx == startIdx + span - 1
             phraseStart == words[startIdx + 1].start
             phraseEnd == words[endIdx + 1].end
             phrase == Substring(sentence, phraseStart, phraseEnd)
         IN  IF cursorWordIdx < startIdx \/ cursorWordIdx > endIdx
             THEN suggestLoop(idx, sentence, sentenceOffset, words, cursorWordIdx, span, offset + 1)
             ELSE IF Len(getSuggestions(idx, phrase)) > 0
             THEN [kind |-> "info", start |-> sentenceOffset + phraseStart,
                   end |-> sentenceOffset + phraseEnd, query |-> phrase]
             ELSE suggestLoop(idx, sentence, sentenceOffset, words, cursorWordIdx, span, offset + 1)

\* onTrigger without the manual-mode check of lines 399-402
onTriggerUngated(line, cursorCh, trigKey, idx) ==
    IF line = <<>> THEN NoTrigger
    ELSE LET start0 == sentenceStartOf(line, cursorCh)
             end0 == sentenceEndOf(line, cursorCh)
             sentenceStart == skipLeadingSpace(line, start0, end0)
             sentenceEnd == skipTrailingSpace(line, sentenceStart, end0)
             sentence == Substring(line, sentenceStart, sentenceEnd)
             words == wordsWithIndicesOf(sentence)
             cursorWordIdx == cursorWordIdxOf(words, cursorCh - sentenceStart)
         IN  IF cursorWordIdx = -1 THEN NoTrigger
             ELSE suggestLoop(idx, sentence, sentenceStart, words, cursorWordIdx, Len(words), 0)

onTrigger(line, cursorCh, trigKey, idx) ==
    IF line = <<>> THEN NoTrigger
    ELSE IF Len(trigKey) > 0
            /\ Substring(line, cursorCh - Len(trigKey), cursorCh) # trigKey
    THEN NoTrigger
    ELSE LET start0 == sentenceStartOf(line, cursorCh)
             end0 == sentenceEndOf(line, cursorCh)
             sentenceStart == skipLeadingSpace(line, start0, end0)
             sentenceEnd == skipTrailingSpace(line, sentenceStart, end0)
             sentence == Substring(line, sentenceStart, sentenceEnd)
             sentenceOffset == sentenceStart
             words == wordsWithIndicesOf(sentence)
             cursorInSentence == cursorCh - sentenceOffset
             cursorWordIdx == cursorWordIdxOf(words, cursorInSentence)
         IN  IF cursorWordIdx = -1 THEN NoTrigger
             ELSE suggestLoop(idx, sentence, sentenceOffset, words, cursorWordIdx, Len(words), 0)

(***************************************************************************)
(* Link text (runQuickLink lines 268-270, selectSuggestion lines 469-475). *)
(***************************************************************************)
WikiLink(dest, shown) == <<"[", "[">> \o dest \o <<"|">> \o shown \o <<"]", "]">>

quickLinkText(bestMatch, phrase) ==
    IF bestMatch.type = "block"
    THEN WikiLink(bestMatch.noteTitle \o <<"#", "^">> \o bestMatch.target, phrase)
    ELSE IF bestMatch.type = "heading"
    THEN WikiLink(bestMatch.noteTitle \o <<"#">> \o bestMatch.target, phrase)
    ELSE WikiLink(bestMatch.target, phrase)

selectLinkText(item, query) ==
    CASE item.type = "title" -> WikiLink(item.target, query)
      [] item.type = "heading" -> WikiLink(item.noteTitle \o <<"#">> \o item.target, query)
      [] item.type = "block" -> WikiLink(item.noteTitle \o <<"#", "^">> \o item.target, query)
      [] item.type = "tag" -> WikiLink(item.target, query)

(***************************************************************************)
(* AutoLinker.runQuickLink: the replaceRange call it makes (NoEdit when it *)
(* makes none) and the Notice it shows.                                    *)
(***************************************************************************)
NoEdit == [kind |-> "none"]
NoNotice == [kind |-> "none"]
NoValidPhraseNotice == [kind |-> "noValidPhrase"]
NoMatchNotice == [kind |-> "noMatch"]
LinkedNotice(displayText) == [kind |-> "linked", text |-> displayText]

\* find looking at the first entry of the result only
findExactFirstOnly(suggestionList, phrase) ==
    IF suggestionList # <<>>
       /\ ToLowerCase(suggestionList[1].displayText) = ToLowerCase(phrase)
    THEN 1 ELSE 0

\* suggestions.find(s => s.displayText.toLowerCase() === phrase.toLowerCase()):
\* the 1-based position of the first such entry, 0 when there is none
findExact(suggestionList, phrase) ==
    LET hits == {i \in 1..Len(suggestionList) :
                    ToLowerCase(suggestionList[i].displayText) = ToLowerCase(phrase)}
    IN  IF hits = {} THEN 0 ELSE CHOOSE i \in hits : \A j \in hits : i <= j

\* the two nested for-loops of lines 246-277 and the notice of line 278
RECURSIVE quickLinkLoop(_, _, _, _, _, _, _)
quickLinkLoop(idx, sentence, sentenceOffset, words, cursorWordIdx, span, offset) ==
    IF span < 1 THEN [edit |-> NoEdit, notice |-> NoMatchNotice]
    ELSE IF offset > Len(words) - span
    THEN quickLinkLoop(idx, sentence, sentenceOffset, words, cursorWordIdx, span - 1, 0)
    ELSE LET startIdx == offset
             endIdx == startIdx + span - 1
         IN  IF cursorWordIdx < startIdx \/ cursorWordIdx > endIdx
             THEN quickLinkLoop(idx, sentence, sentenceOffset, words, cursorWordIdx, span, offset + 1)
             ELSE LET phraseStart == words[startIdx + 1].start
                      phraseEnd == words[endIdx + 1].end
                      phrase == Substring(sentence, phraseStart, phraseEnd)
                      suggestionList == getSuggestions(idx, phrase)
                      found == findExact(suggestionList, phrase)
                  IN  IF found # 0
                      THEN LET bestMatch == suggestionList[found]
                           IN  [edit |-> [kind |-> "replaceRange",
                                          text |-> quickLinkText(bestMatch, phrase),
                                          start |-> sentenceOffset + phraseStart,
                                          end |-> sentenceOffset + phraseEnd],
                                notice |-> LinkedNotice(bestMatch.displayText)]
                      ELSE quickLinkLoop(idx, sentence, sentenceOffset, words,
                                         cursorWordIdx, span, offset + 1)

runQuickLink(line, cursorCh, idx) ==
    LET start0 == sentenceStartOf(line, cursorCh)
        sentenceEnd == sentenceEndOf(line, cursorCh)
        sentenceStart == skipLeadingSpace(line, start0, sentenceEnd)
        sentence == Substring(line, sentenceStart, sentenceEnd)
        sentenceOffset == sentenceStart
        words == wordsWithIndicesOf(sentence)
        cursorInSentence == cursorCh - sentenceOffset
        cursorWordIdx == cursorWordIdxOf(words, cursorInSentence)
    IN  IF cursorWordIdx = -1 THEN [edit |-> NoEdit, notice |-> NoValidPhraseNotice]
        ELSE quickLinkLoop(idx, sentence, sentenceOffset, words, cursorWordIdx, Len(words), 0)

(***************************************************************************)
(* State.                                                                  *)
(*   files            the vault and the metadata cache: for each TFile     *)
(*                    object whether it is in the vault, its path (kept by *)
(*                    the object after a delete) and its cached metadata   *)
(*   index            AutoLinker.index                                     *)
(*   isIndexing       AutoLinker.isIndexing                                *)
(*   buildQueue       the files buildFullIndex has still to index          *)
(*   pluginPc         "new": constructed, onload not yet run; "build":     *)
(*                    inside buildFullIndex; "run": handlers registered    *)
(*   timers           the pending window.setTimeout callbacks of           *)
(*                    debouncedIndexUpdate: [id, file, left], left being   *)
(*                    the milliseconds until the callback is due           *)
(*   debounceTimeout  AutoLinker.debounceTimeout (0 for undefined)         *)
(*   startupAttempts  AutoLinker.startupAttempts                           *)
(*   reloadTimers     the pending setTimeout callbacks of onload that call *)
(*                    reloadSelf: [id, left]; they belong to the window    *)
(*                    and outlive the plugin instance that set them        *)
(*   retryLoad        history: the load in progress was caused by a retry  *)
(*                    timer (FALSE once onload has ended)                  *)
(*   lastEvent        history: the handler or callback that ran in the     *)
(*                    last step (NoEvent when the step ran none), with the *)
(*                    files whose callbacks were pending when a debounced  *)
(*                    event came, and the number of entries a delete took  *)
(*                    out of the index                                     *)
(*   triggerKey       settings.triggerKey                                  *)
(*   line, cursor     the editor's line and cursor.ch at a request         *)
(*   context          what onTrigger returned (EditorSuggest.context)      *)
(*   suggestions      what AutoLinkerSuggest.getSuggestions returned       *)
(*   edit, notice     the editor.replaceRange call and the Notice made by  *)
(*                    the last editor operation                            *)
(*   uiPc             "idle", or the editor operation that has run         *)
(***************************************************************************)
VARIABLES files, index, isIndexing, buildQueue, pluginPc, timers, debounceTimeout,
          startupAttempts, reloadTimers, retryLoad, lastEvent,
          triggerKey, line, cursor, context, suggestions, edit, notice, uiPc

pluginVars == <<files, index, isIndexing, buildQueue, pluginPc, timers, debounceTimeout,
                startupAttempts, reloadTimers, retryLoad, lastEvent>>
editorVars == <<triggerKey, line, cursor, context, suggestions, edit, notice, uiPc>>
vars == <<files, index, isIndexing, buildQueue, pluginPc, timers, debounceTimeout,
          startupAttempts, reloadTimers, retryLoad, lastEvent,
          triggerKey, line, cursor, context, suggestions, edit, notice, uiPc>>

NoEvent == [op |-> "none"]

(***************************************************************************)
(* The bounded environment: TFile objects, paths and cached metadata.      *)
(***************************************************************************)
FileIds == {"f1", "f2"}

TitleAb == <<"A", "b">>
TitleBa == <<"b", "a">>

PathAb   == [dir |-> "", base |-> TitleAb, ext |-> "md"]
PathBa   == [dir |-> "", base |-> TitleBa, ext |-> "md"]
PathPng  == [dir |-> "", base |-> TitleBa, ext |-> "png"]
TitleA == <<"a">>
PathA == [dir |-> "", base |-> TitleA, ext |-> "md"]
Paths == {PathAb, PathBa, PathPng}

\* frontmatter "tags: ba, ba", the heading "A-b", a section without an id and
\* a section with the block id "ba"
MetaRich == [tags |-> [kind |-> "string", text |-> <<"b", "a", ",", " ", "b", "a">>],
             headings |-> << <<"A", "-", "b">> >>,
             sections |-> << <<>>, <<"b", "a">> >>]
Metadatas == {NoMetadata, MetaRich}

\* a rename leaves a file a note: its new path is a markdown path
RenameTargets == {p \in Paths : p.ext = "md"}

NoFile(p) == [exists |-> FALSE, path |-> p, meta |-> NoMetadata]

\* A TFile object that is out of the vault and captured by no pending
\* callback is unreachable: its slot is reset, so that it can stand for the
\* next file created.
Collect(fs, tms) ==
    [f \in FileIds |->
        IF ~fs[f].exists /\ ~(\E t \in tms : t.file = f) THEN NoFile(PathAb) ELSE fs[f]]

PathTaken(fs, p) == \E f \in FileIds : fs[f].exists /\ fs[f].path = p

\* metadataCache.getFileCache(file): the cache is looked up by file.path
getFileCache(fs, file) ==
    IF \E f \in FileIds : fs[f].exists /\ fs[f].path = file.path
    THEN fs[CHOOSE f \in FileIds : fs[f].exists /\ fs[f].path = file.path].meta
    ELSE NoMetadata

\* the TFile object f as the handlers see it
TFile(fs, f) == [path |-> fs[f].path]

\* vault.getMarkdownFiles(): the markdown files, in one of the orders the
\* vault may list them
IsOrderOf(order, S) ==
    /\ Len(order) = Cardinality(S)
    /\ {order[i] : i \in 1..Len(order)} = S
MarkdownFiles(fs) == {f \in FileIds : fs[f].exists /\ fs[f].path.ext = "md"}
FileOrders(S) == {order \in UNION {[1..n -> S] : n \in {Cardinality(S)}} : IsOrderOf(order, S)}

(***************************************************************************)
(* Timers of debouncedIndexUpdate.                                         *)
(***************************************************************************)
DebounceMs == 300
TickMs == 150

\* the retry of onload: the field of line 115, the delay of line 143, the
\* notice of showStartupNotice
maxStartupAttempts == 2
ReloadDelayMs == 200
InitializedNotice == [kind |-> "initialized"]

\* the pending retry timers the model follows
MaxReloadTimers == 1

\* clearTimeout(id)
clearTimeout(tms, id) == {t \in tms : t.id # id}

\* the id window.setTimeout returns: a positive integer no pending timer has
NewTimerId(tms) ==
    CHOOSE n \in 1..(Cardinality(tms) + 1) :
        /\ \A t \in tms : t.id # n
        /\ \A m \in 1..(n - 1) : \E t \in tms : t.id = m

\* debouncedIndexUpdate without the clearTimeout of line 354
debouncedIndexUpdateNoClear(tms, timeoutId, f) ==
    LET id == NewTimerId(tms)
    IN  [timers |-> tms \cup {[id |-> id, file |-> f, left |-> DebounceMs]},
         debounceTimeout |-> id]

\* debouncedIndexUpdate(file): the timers and debounceTimeout it leaves
debouncedIndexUpdate(tms, timeoutId, f) ==
    LET cleared == IF timeoutId # 0 THEN clearTimeout(tms, timeoutId) ELSE tms
        id == NewTimerId(cleared)
    IN  [timers |-> cleared \cup {[id |-> id, file |-> f, left |-> DebounceMs]},
         debounceTimeout |-> id]

\* the callback without deleteFromIndex(file)
debounceCallbackNoDelete(idx, fs, f) ==
    indexFile(idx, TFile(fs, f), getFileCache(fs, TFile(fs, f)))

\* the callback of the timer: deleteFromIndex(file); indexFile(file)
debounceCallback(idx, fs, f) ==
    indexFile(deleteFromIndex(idx, fs[f].path), TFile(fs, f), getFileCache(fs, TFile(fs, f)))

(***************************************************************************)
(* The plugin and the vault.  Vault events, timer callbacks and commands   *)
(* are tasks of the event loop; buildFullIndex only awaits indexFile,      *)
(* which never suspends, so no task runs between its steps (pluginPc =     *)
(* "build").  The handlers exist from the end of initializePlugin until    *)
(* the plugin is disabled (pluginPc = "run"); an event outside that span   *)
(* changes the vault and reaches no handler.                               *)
(***************************************************************************)
EditorIdle ==
    /\ triggerKey = <<>>
    /\ line = <<>>
    /\ cursor = 0
    /\ context = NoTrigger
    /\ suggestions = <<>>
    /\ edit = NoEdit
    /\ notice = NoNotice
    /\ uiPc = "idle"

Init ==
    /\ files = [f \in FileIds |-> NoFile(PathAb)]
    /\ index = <<>>
    /\ isIndexing = FALSE
    /\ buildQueue = <<>>
    /\ pluginPc = "new"
    /\ timers = {}
    /\ debounceTimeout = 0
    /\ startupAttempts = 0
    /\ reloadTimers = {}
    /\ retryLoad = FALSE
    /\ lastEvent = NoEvent
    /\ EditorIdle

\* buildFullIndex without the guard of line 307
buildFullIndexEnterUnguarded ==
    /\ isIndexing' = TRUE
    /\ index' = <<>>
    /\ \E order \in FileOrders(MarkdownFiles(files)) : buildQueue' = order

\* buildFullIndex up to its loop (lines 307-310): a call during a build
\* returns at once
buildFullIndexEnter ==
    IF isIndexing
    THEN UNCHANGED <<isIndexing, index, buildQueue>>
    ELSE /\ isIndexing' = TRUE
         /\ index' = <<>>
         /\ \E order \in FileOrders(MarkdownFiles(files)) : buildQueue' = order

\* onload: startupAttempts++, then initializePlugin -> buildFullIndex, up to its
\* first await
Onload ==
    /\ pluginPc = "new"
    /\ pluginPc' = "build"
    /\ buildFullIndexEnter
    /\ startupAttempts' = startupAttempts + 1
    /\ lastEvent' = NoEvent
    /\ UNCHANGED <<files, timers, debounceTimeout, reloadTimers, retryLoad>>
    /\ UNCHANGED editorVars

\* one turn of the loop of buildFullIndex: await this.indexFile(file)
BuildStep ==
    /\ pluginPc = "build"
    /\ buildQueue # <<>>
    /\ index' = indexFile(index, TFile(files, Head(buildQueue)),
                          getFileCache(files, TFile(files, Head(buildQueue))))
    /\ buildQueue' = Tail(buildQueue)
    /\ lastEvent' = NoEvent
    /\ UNCHANGED <<files, isIndexing, pluginPc, timers, debounceTimeout>>
    /\ UNCHANGED <<startupAttempts, reloadTimers, retryLoad>>
    /\ UNCHANGED editorVars

\* the test of line 142: the index is empty and an attempt is left
retryWanted(idx, attempts) == Len(idx) = 0 /\ attempts < maxStartupAttempts

\* the end of buildFullIndex, the rest of initializePlugin, which registers
\* the four handlers and the suggester, and the rest of onload, which adds
\* the commands and either sets the retry timer or shows the startup notice
BuildEnd ==
    /\ pluginPc = "build"
    /\ buildQueue = <<>>
    /\ isIndexing' = FALSE
    /\ pluginPc' = "run"
    /\ IF retryWanted(index, startupAttempts)
       THEN /\ reloadTimers' = reloadTimers
                    \cup {[id |-> NewTimerId(reloadTimers), left |-> ReloadDelayMs]}
            /\ lastEvent' = [op |-> "loaded", byRetry |-> retryLoad, retry |-> TRUE,
                             notice |-> NoNotice]
       ELSE /\ UNCHANGED reloadTimers
            /\ lastEvent' = [op |-> "loaded", byRetry |-> retryLoad, retry |-> FALSE,
                             notice |-> InitializedNotice]
    /\ retryLoad' = FALSE
    /\ UNCHANGED <<files, index, buildQueue, timers, debounceTimeout, startupAttempts>>
    /\ UNCHANGED editorVars

\* reloadSelf: disablePlugin drops the handlers and enablePlugin constructs
\* the plugin again, so the fields take their initial values (lines 109-115);
\* a debounce timer of the disabled instance can only touch that instance's
\* index.  The retry timers stay pending.
newInstance ==
    /\ pluginPc' = "new"
    /\ index' = <<>>
    /\ isIndexing' = FALSE
    /\ timers' = {}
    /\ debounceTimeout' = 0
    /\ startupAttempts' = 0
    /\ files' = Collect(files, {})
    /\ lastEvent' = NoEvent
    /\ UNCHANGED buildQueue
    /\ UNCHANGED editorVars

\* the command 'Reload Plugin', the ribbon icon or a click on the status bar
ReloadSelf ==
    /\ pluginPc = "run"
    /\ Cardinality(reloadTimers) < MaxReloadTimers
    /\ newInstance
    /\ retryLoad' = FALSE
    /\ UNCHANGED reloadTimers

\* a due retry timer calls reloadSelf; it waits for a load in progress
RetryFire(t) ==
    /\ pluginPc = "run"
    /\ t \in reloadTimers
    /\ t.left = 0
    /\ newInstance
    /\ retryLoad' = TRUE
    /\ reloadTimers' = reloadTimers \ {t}

\* the number of entries in the index
RECURSIVE IndexSize(_)
IndexSize(idx) == IF idx = <<>> THEN 0 ELSE Len(Head(idx).entries) + IndexSize(Tail(idx))

\* what a handler that calls debouncedIndexUpdate(file) does to the timers
Debounce(f) ==
    IF pluginPc = "run"
    THEN LET r == debouncedIndexUpdate(timers, debounceTimeout, f)
         IN  /\ timers' = r.timers
             /\ debounceTimeout' = r.debounceTimeout
             /\ lastEvent' = [op |-> "debounce", file |-> f,
                              pending |-> {t.file : t \in timers}]
    ELSE /\ UNCHANGED <<timers, debounceTimeout>>
         /\ lastEvent' = NoEvent

\* vault 'create': a file appears, its metadata not yet cached
OnCreate(f, p) ==
    /\ pluginPc # "build"
    /\ ~files[f].exists
    /\ ~PathTaken(files, p)
    /\ Debounce(f)
    /\ files' = Collect([files EXCEPT ![f] = [exists |-> TRUE, path |-> p, meta |-> NoMetadata]],
                        timers')
    /\ UNCHANGED <<index, isIndexing, buildQueue, pluginPc>>
    /\ UNCHANGED <<startupAttempts, reloadTimers, retryLoad>>
    /\ UNCHANGED editorVars

\* metadataCache 'changed': the cache holds new metadata for a markdown file
OnChanged(f, m) ==
    /\ pluginPc # "build"
    /\ files[f].exists
    /\ files[f].path.ext = "md"
    /\ m # NoMetadata
    /\ Debounce(f)
    /\ files' = Collect([files EXCEPT ![f].meta = m], timers')
    /\ UNCHANGED <<index, isIndexing, buildQueue, pluginPc>>
    /\ UNCHANGED <<startupAttempts, reloadTimers, retryLoad>>
    /\ UNCHANGED editorVars

\* vault 'delete': the file and its cached metadata are gone
OnDelete(f) ==
    /\ pluginPc # "build"
    /\ files[f].exists
    /\ files' = Collect([files EXCEPT ![f] = NoFile(files[f].path)], timers)
    /\ index' = IF pluginPc = "run" THEN deleteFromIndex(index, files[f].path) ELSE index
    /\ lastEvent' = IF pluginPc = "run"
                    THEN [op |-> "delete", path |-> files[f].path,
                          removed |-> IndexSize(index) - IndexSize(index')]
                    ELSE NoEvent
    /\ UNCHANGED <<isIndexing, buildQueue, pluginPc, timers, debounceTimeout>>
    /\ UNCHANGED <<startupAttempts, reloadTimers, retryLoad>>
    /\ UNCHANGED editorVars

\* vault 'rename': the TFile object has the new path when the handler runs
OnRename(f, p) ==
    /\ pluginPc # "build"
    /\ files[f].exists
    /\ p # files[f].path
    /\ ~PathTaken(files, p)
    /\ files' = [files EXCEPT ![f].path = p]
    /\ index' = IF pluginPc = "run"
                THEN renameInIndex(index, [path |-> p], files[f].path)
                ELSE index
    /\ lastEvent' = IF pluginPc = "run"
                    THEN [op |-> "rename", path |-> p, oldPath |-> files[f].path] ELSE NoEvent
    /\ UNCHANGED <<isIndexing, buildQueue, pluginPc, timers, debounceTimeout>>
    /\ UNCHANGED <<startupAttempts, reloadTimers, retryLoad>>
    /\ UNCHANGED editorVars

\* TickMs milliseconds pass
Elapse(tms) == {[t EXCEPT !.left = Max(0, t.left - TickMs)] : t \in tms}

Tick ==
    /\ pluginPc # "build"
    /\ \E t \in timers \cup reloadTimers : t.left > 0
    /\ timers' = Elapse(timers)
    /\ reloadTimers' = Elapse(reloadTimers)
    /\ lastEvent' = NoEvent
    /\ UNCHANGED <<files, index, isIndexing, buildQueue, pluginPc, debounceTimeout>>
    /\ UNCHANGED <<startupAttempts, retryLoad>>
    /\ UNCHANGED editorVars

\* Stale entries can pile up without limit, so a callback that would take the
\* index beyond MaxIndexEntries is left out of the model.
MaxIndexEntries == 8

\* a due timer runs its callback
TimerFire(t) ==
    /\ pluginPc # "build"
    /\ t \in timers
    /\ t.left = 0
    /\ IndexSize(debounceCallback(index, files, t.file)) <= MaxIndexEntries
    /\ timers' = timers \ {t}
    /\ index' = debounceCallback(index, files, t.file)
    /\ files' = Collect(files, timers')
    /\ lastEvent' = [op |-> "callback", path |-> files[t.file].path]
    /\ UNCHANGED <<isIndexing, buildQueue, pluginPc, debounceTimeout>>
    /\ UNCHANGED <<startupAttempts, reloadTimers, retryLoad>>
    /\ UNCHANGED editorVars

Next ==
    \/ Onload
    \/ BuildStep
    \/ BuildEnd
    \/ ReloadSelf
    \/ \E t \in reloadTimers : RetryFire(t)
    \/ \E f \in FileIds, p \in Paths : OnCreate(f, p)
    \/ \E f \in FileIds, m \in Metadatas : OnChanged(f, m)
    \/ \E f \in FileIds : OnDelete(f)
    \/ \E f \in FileIds, p \in RenameTargets : OnRename(f, p)
    \/ Tick
    \/ \E t \in timers : TimerFire(t)

Spec == Init /\ [][Next]_vars

TypeOK ==
    /\ isIndexing \in BOOLEAN
    /\ pluginPc \in {"new", "build", "run"}
    /\ debounceTimeout \in Nat
    /\ startupAttempts \in 0..maxStartupAttempts
    /\ retryLoad \in BOOLEAN

(***************************************************************************)
(* The editor requests.  The index is the one a full build leaves for a    *)
(* vault; the request is a line, a cursor offset and the trigger key, and  *)
(* one operation answers it.                                               *)
(***************************************************************************)
MaxLineLen == 5

\* the lines: words and spaces; shorter lines that also hold sentence ends;
\* still shorter lines of words and hyphens, and of words of underscores
WordChars == {"a", "b", " "}
CoreChars == WordChars \cup {"."}
HyphenChars == {"a", "b", "-"}
UnderscoreChars == {"a", "_", " "}
Strings(chars, maxLen) == UNION {[1..n -> chars] : n \in 0..maxLen}
Lines ==
    Strings(WordChars, MaxLineLen) \cup Strings(CoreChars, MaxLineLen - 1)
        \cup Strings(HyphenChars, MaxLineLen - 2)
        \cup Strings(UnderscoreChars, MaxLineLen - 2)

\* the cursor offsets of a request: inside the line, at its end, one beyond
Cursors(ln) == 0..(Len(ln) + 1)

TriggerKeys == {<<>>, <<"-">>}

\* frontmatter "tags: [b-a]", the headings "a b" and "Ab"
MetaList == [tags |-> [kind |-> "array", items |-> << <<"b", "-", "a">> >>],
             headings |-> << <<"a", " ", "b">>, TitleAb >>,
             sections |-> <<>>]

\* the vaults: "Ab.md" with MetaList, and "ba.md" with MetaRich or "a.md"
\* without cached metadata
EditVaults ==
    {[f \in FileIds |-> IF f = "f1" THEN [exists |-> TRUE, path |-> PathAb, meta |-> MetaList]
                                    ELSE b] :
        b \in {[exists |-> TRUE, path |-> PathBa, meta |-> MetaRich],
               [exists |-> TRUE, path |-> PathA, meta |-> NoMetadata]}}

\* the index buildFullIndex leaves when it indexes the files in this order
RECURSIVE buildAll(_, _, _)
buildAll(idx, fs, order) ==
    IF order = <<>> THEN idx
    ELSE buildAll(indexFile(idx, TFile(fs, Head(order)), getFileCache(fs, TFile(fs, Head(order)))),
                  fs, Tail(order))

\* the vault and the index after: "Ab.md" is indexed and renamed to "ba.md",
\* a new "Ab.md" is created and deleted before its timer fires, the timer
\* fires, "ba.md" is renamed back to "Ab.md"
RenamedBackVault ==
    [f \in FileIds |-> IF f = "f1" THEN [exists |-> TRUE, path |-> PathAb, meta |-> NoMetadata]
                                   ELSE NoFile(PathAb)]

RenamedBackIndex ==
    LET built == indexFile(<<>>, [path |-> PathAb], NoMetadata)
        away == renameInIndex(built, [path |-> PathBa], PathAb)
        fired == indexFile(deleteFromIndex(away, PathAb), [path |-> PathAb], NoMetadata)
    IN  renameInIndex(fired, [path |-> PathAb], PathBa)

InitEdit ==
    /\ \/ /\ files \in EditVaults
          /\ \E order \in FileOrders(MarkdownFiles(files)) :
                 index = buildAll(<<>>, files, order)
       \/ /\ files = RenamedBackVault
          /\ index = RenamedBackIndex
    /\ isIndexing = FALSE
    /\ buildQueue = <<>>
    /\ pluginPc = "run"
    /\ timers = {}
    /\ debounceTimeout = 0
    /\ startupAttempts = 1
    /\ reloadTimers = {}
    /\ retryLoad = FALSE
    /\ lastEvent = NoEvent
    /\ triggerKey \in TriggerKeys
    /\ line \in Lines
    /\ cursor \in Cursors(line)
    /\ context = NoTrigger
    /\ suggestions = <<>>
    /\ edit = NoEdit
    /\ notice = NoNotice
    /\ uiPc = "idle"

\* the host asks the suggester whether to open the popup
OnTrigger ==
    /\ uiPc = "idle"
    /\ context' = onTrigger(line, cursor, triggerKey, index)
    /\ uiPc' = "triggered"
    /\ UNCHANGED <<triggerKey, line, cursor, suggestions, edit, notice>>
    /\ UNCHANGED pluginVars

\* AutoLinkerSuggest.getSuggestions(context), called when onTrigger gave a context
SuggestGetSuggestions ==
    /\ uiPc = "triggered"
    /\ context # NoTrigger
    /\ suggestions' = getSuggestions(index, context.query)
    /\ uiPc' = "suggested"
    /\ UNCHANGED <<triggerKey, line, cursor, context, edit, notice>>
    /\ UNCHANGED pluginVars

\* AutoLinkerSuggest.selectSuggestion(item) for an item of the popup
SelectSuggestion(i) ==
    /\ uiPc = "suggested"
    /\ i \in 1..Len(suggestions)
    /\ edit' = [kind |-> "replaceRange",
                text |-> selectLinkText(suggestions[i], context.query),
                start |-> context.start, end |-> context.end]
    /\ uiPc' = "selected"
    /\ UNCHANGED <<triggerKey, line, cursor, context, suggestions, notice>>
    /\ UNCHANGED pluginVars

\* the command 'Convert phrase to link'
RunQuickLink ==
    /\ uiPc = "idle"
    /\ LET r == runQuickLink(line, cursor, index)
       IN  edit' = r.edit /\ notice' = r.notice
    /\ uiPc' = "linked"
    /\ UNCHANGED <<triggerKey, line, cursor, context, suggestions>>
    /\ UNCHANGED pluginVars

NextEdit ==
    \/ OnTrigger
    \/ SuggestGetSuggestions
    \/ \E i \in 1..Len(suggestions) : SelectSuggestion(i)
    \/ RunQuickLink

SpecEdit == InitEdit /\ [][NextEdit]_vars

(***************************************************************************)
(* buildFullIndex on its own, and renames.  In the plugin the one caller   *)
(* of buildFullIndex is initializePlugin, once per instance; here the      *)
(* method is called at any time, also at an await of the loop of a call    *)
(* in progress, for the vaults of at most two files with four paths, and   *)
(* between the builds the files are renamed.                               *)
(***************************************************************************)
BuildPaths == Paths \cup {PathA}

FileStates ==
    {NoFile(PathAb)} \cup [exists : {TRUE}, path : BuildPaths, meta : Metadatas]

BuildVaults ==
    {fs \in [FileIds -> FileStates] :
        \A f, g \in FileIds :
            f # g /\ fs[f].exists /\ fs[g].exists => fs[f].path # fs[g].path}

InitBuild ==
    /\ files \in BuildVaults
    /\ index = <<>>
    /\ isIndexing = FALSE
    /\ buildQueue = <<>>
    /\ pluginPc = "run"
    /\ timers = {}
    /\ debounceTimeout = 0
    /\ startupAttempts = 1
    /\ reloadTimers = {}
    /\ retryLoad = FALSE
    /\ lastEvent = NoEvent
    /\ EditorIdle

\* a call of buildFullIndex, up to its first await
RebuildRequest ==
    /\ pluginPc \in {"run", "build"}
    /\ buildFullIndexEnter
    /\ pluginPc' = "build"
    /\ lastEvent' = [op |-> "rebuild", served |-> ~isIndexing]
    /\ UNCHANGED <<files, timers, debounceTimeout, startupAttempts, reloadTimers, retryLoad>>
    /\ UNCHANGED editorVars

\* the end of the loop: line 312
RebuildEnd ==
    /\ pluginPc = "build"
    /\ buildQueue = <<>>
    /\ isIndexing' = FALSE
    /\ pluginPc' = "run"
    /\ lastEvent' = [op |-> "rebuilt"]
    /\ UNCHANGED <<files, index, buildQueue, timers, debounceTimeout>>
    /\ UNCHANGED <<startupAttempts, reloadTimers, retryLoad>>
    /\ UNCHANGED editorVars

NextBuild ==
    \/ RebuildRequest
    \/ BuildStep
    \/ RebuildEnd
    \/ \E f \in FileIds, p \in {q \in BuildPaths : q.ext = "md"} : OnRename(f, p)

SpecBuild == InitBuild /\ [][NextBuild]_vars

(***************************************************************************)
(* Shapes used by the properties below.                                    *)
(***************************************************************************)
\* every entry of the index with the bucket key it lies under
EntriesOf(idx) ==
    UNION {{[key |-> idx[i].key, entry |-> idx[i].entries[j]] :
               j \in 1..Len(idx[i].entries)} : i \in 1..Len(idx)}

KeysOf(idx) == {idx[i].key : i \in 1..Len(idx)}

Triple(e) == <<e.type, e.notePath, e.target>>

\* the entries of a bucket that do not belong to path, in order
OthersIn(entries, path) == SelectSeq(entries, LAMBDA e : e.notePath # path)

(***************************************************************************)
(* C3.  No bucket of the index holds two entries with the same            *)
(* (type, notePath, target), in any state reached by full builds,          *)
(* debounced re-indexing, deletes and renames.                             *)
(***************************************************************************)
C3_BucketUnique ==
    \A i \in 1..Len(index) :
        \A j, k \in 1..Len(index[i].entries) :
            j # k => Triple(index[i].entries[j]) # Triple(index[i].entries[k])

(***************************************************************************)
(* C4.  Every key of the index maps to a non-empty bucket in every state;  *)
(* right after a delete event, no key is left whose bucket held only       *)
(* entries of the deleted document.                                        *)
(***************************************************************************)
C4_NoEmptyBuckets ==
    /\ \A i \in 1..Len(index) : Len(index[i].entries) > 0
    /\ lastEvent.op = "delete" =>
          \A i \in 1..Len(index) :
              \E j \in 1..Len(index[i].entries) :
                  index[i].entries[j].notePath # lastEvent.path

\* "Ab.md" has just been deleted, entries left the index with it, its title
\* key is gone and other buckets remain
C4_Witness ==
    /\ lastEvent.op = "delete"
    /\ lastEvent.path = PathAb
    /\ lastEvent.removed > 0
    /\ normalizeText(TitleAb) \notin KeysOf(index)
    /\ index # <<>>

(***************************************************************************)
(* C5.  After a rename event the Title entry of the renamed document has   *)
(* target, displayText and noteTitle equal to the new title.               *)
(***************************************************************************)
C5_RenameUpdatesTitle ==
    lastEvent.op = "rename" =>
        \A x \in EntriesOf(index) :
            x.entry.type = "title" /\ x.entry.notePath = lastEvent.path =>
                /\ x.entry.target = lastEvent.path.base
                /\ x.entry.displayText = lastEvent.path.base
                /\ x.entry.noteTitle = lastEvent.path.base

(***************************************************************************)
(* C6.  A change or create event for one document cancels only a pending   *)
(* re-index of that document: a re-index pending for another document is   *)
(* still pending after the event.                                          *)
(***************************************************************************)
C6_PerDocumentDebounce ==
    lastEvent.op = "debounce" =>
        \A a \in lastEvent.pending : \E t \in timers : t.file = a

(***************************************************************************)
(* C7.  Events for one document that each arrive inside the window of the  *)
(* previous one leave a single pending re-index, due a full window         *)
(* (DebounceMs) after the last event; a re-index runs only when its window *)
(* has elapsed, and none is pending after it.                              *)
(***************************************************************************)
C7_Coalesce ==
    [][/\ lastEvent'.op = "debounce" =>
            /\ Cardinality(timers') = 1
            /\ \A t \in timers' : t.file = lastEvent'.file /\ t.left = DebounceMs
       /\ lastEvent'.op = "callback" =>
            /\ \E t \in timers : t.left = 0 /\ files[t.file].path = lastEvent'.path
            /\ timers' = {}]_vars

\* an event for a document came while the re-index of that document was pending
C7_Witness ==
    /\ lastEvent.op = "debounce"
    /\ lastEvent.file \in lastEvent.pending
    /\ files[lastEvent.file].meta = MetaRich

(***************************************************************************)
(* C8.  Right after a delete event no entry of the index has the deleted   *)
(* document's path, and the entries of the other documents are as before:  *)
(* the buckets that keep an entry stay in their order, each with its       *)
(* remaining entries in their order.                                       *)
(***************************************************************************)
C8_DeleteFrame ==
    [][lastEvent'.op = "delete" =>
        LET p == lastEvent'.path
            kept == {i \in 1..Len(index) : OthersIn(index[i].entries, p) # <<>>}
        IN  /\ \A x \in EntriesOf(index') : x.entry.notePath # p
            /\ Len(index') = Cardinality(kept)
            /\ \A i \in kept :
                 LET r == Cardinality({j \in kept : j <= i})
                 IN  /\ index'[r].key = index[i].key
                     /\ index'[r].entries = OthersIn(index[i].entries, p)]_vars

\* a delete took entries out of a bucket that keeps entries of another document
C8_Witness ==
    /\ lastEvent.op = "delete"
    /\ lastEvent.removed > 0
    /\ \E i \in 1..Len(index) : Len(index[i].entries) >= 2
    /\ \E f \in FileIds : files[f].exists /\ files[f].meta = MetaRich

(***************************************************************************)
(* The candidates of a scan: the contiguous token spans (span tokens from  *)
(* token offset on, 0-based) that contain the cursor word, the order       *)
(* "more tokens first, then smaller start", and whether the matcher finds  *)
(* anything for the text of a candidate.                                   *)
(***************************************************************************)
\* sentence, offset, tokens and cursor word of the suggestion flow's scan
TriggerScan(ln, ch) ==
    LET start0 == sentenceStartOf(ln, ch)
        end0 == sentenceEndOf(ln, ch)
        sentenceStart == skipLeadingSpace(ln, start0, end0)
        sentenceEnd == skipTrailingSpace(ln, sentenceStart, end0)
        sentence == Substring(ln, sentenceStart, sentenceEnd)
        words == wordsWithIndicesOf(sentence)
    IN  [sentence |-> sentence, offset |-> sentenceStart, words |-> words,
         cursorWordIdx |-> cursorWordIdxOf(words, ch - sentenceStart)]

\* the same for the immediate-link flow, which keeps trailing white space
QuickScan(ln, ch) ==
    LET start0 == sentenceStartOf(ln, ch)
        sentenceEnd == sentenceEndOf(ln, ch)
        sentenceStart == skipLeadingSpace(ln, start0, sentenceEnd)
        sentence == Substring(ln, sentenceStart, sentenceEnd)
        words == wordsWithIndicesOf(sentence)
    IN  [sentence |-> sentence, offset |-> sentenceStart, words |-> words,
         cursorWordIdx |-> cursorWordIdxOf(words, ch - sentenceStart)]

Candidates(scan) ==
    IF scan.cursorWordIdx = -1 THEN {}
    ELSE {c \in [span : 1..Len(scan.words), offset : 0..(Len(scan.words) - 1)] :
             /\ c.offset + c.span <= Len(scan.words)
             /\ c.offset <= scan.cursorWordIdx
             /\ scan.cursorWordIdx <= c.offset + c.span - 1}

Before(d, c) == d.span > c.span \/ (d.span = c.span /\ d.offset < c.offset)

PhraseStart(scan, c) == scan.words[c.offset + 1].start
PhraseEnd(scan, c) == scan.words[c.offset + c.span].end
PhraseOf(scan, c) == Substring(scan.sentence, PhraseStart(scan, c), PhraseEnd(scan, c))

InfoOf(scan, c) ==
    [kind |-> "info", start |-> scan.offset + PhraseStart(scan, c),
     end |-> scan.offset + PhraseEnd(scan, c), query |-> PhraseOf(scan, c)]

HasMatch(idx, scan, c) == getSuggestions(idx, PhraseOf(scan, c)) # <<>>

\* ctx is the first of the candidates in matching, or null when there is none
FirstOf(scan, matching, ctx) ==
    /\ ctx # NoTrigger =>
          \E c \in matching :
              /\ ctx = InfoOf(scan, c)
              /\ \A d \in matching : ~Before(d, c)
    /\ matching = {} => ctx = NoTrigger

\* context is the first candidate of cands with a match, or null without one
FirstMatching(idx, scan, cands, ctx) ==
    FirstOf(scan, {c \in cands : HasMatch(idx, scan, c)}, ctx)

(***************************************************************************)
(* C1.  When onTrigger has answered, a returned span is the first          *)
(* candidate, more tokens first and then smaller start, among the token    *)
(* spans that contain the cursor word and have a non-empty match list: no  *)
(* candidate before it has a match.  When no candidate has a match,        *)
(* nothing is returned.                                                    *)
(***************************************************************************)
C1_FirstCandidate ==
    uiPc = "triggered" =>
        LET scan == TriggerScan(line, cursor)
        IN  FirstMatching(index, scan, Candidates(scan), context)

\* a span was returned after a longer candidate and an equally long one
\* further left had no match
C1_Witness ==
    /\ uiPc = "triggered"
    /\ context # NoTrigger
    /\ LET scan == TriggerScan(line, cursor)
       IN  \E c, d, e \in Candidates(scan) :
               /\ context = InfoOf(scan, c)
               /\ d.span = c.span /\ d.offset < c.offset
               /\ e.span > c.span

(***************************************************************************)
(* Where the matcher finds an entry: under a key that has the normalized   *)
(* query as a prefix, or only under keys the query is a subsequence of.    *)
(***************************************************************************)
UnderPrefixKey(idx, q, e) ==
    \E i \in 1..Len(idx) :
        /\ StartsWith(idx[i].key, q)
        /\ \E j \in 1..Len(idx[i].entries) : SameTriple(idx[i].entries[j], e)

FuzzyOnly(idx, q, e) ==
    /\ ~UnderPrefixKey(idx, q, e)
    /\ \E i \in 1..Len(idx) :
          /\ fuzzyMatch(q, idx[i].key)
          /\ \E j \in 1..Len(idx[i].entries) : SameTriple(idx[i].entries[j], e)

(***************************************************************************)
(* C2.  In the list the matcher returned for the popup, every entry that   *)
(* lies under a key having the normalized query as a prefix comes before   *)
(* every entry that only the fuzzy pass reaches.                           *)
(***************************************************************************)
C2_PrefixBeforeFuzzy ==
    uiPc = "suggested" =>
        LET q == normalizeText(context.query)
        IN  \A i, j \in 1..Len(suggestions) :
                UnderPrefixKey(index, q, suggestions[i]) /\ FuzzyOnly(index, q, suggestions[j])
                    => i < j

\* the list holds an entry of each kind, and in the index a key reached only
\* by the fuzzy pass comes before a key with the query as prefix
C2_Witness ==
    /\ uiPc = "suggested"
    /\ LET q == normalizeText(context.query)
       IN  /\ \E i, j \in 1..Len(suggestions) :
                  UnderPrefixKey(index, q, suggestions[i]) /\ FuzzyOnly(index, q, suggestions[j])
           /\ \E a, b \in 1..Len(index) :
                  /\ a < b
                  /\ ~StartsWith(index[a].key, q) /\ fuzzyMatch(q, index[a].key)
                  /\ StartsWith(index[b].key, q)

(***************************************************************************)
(* The candidates of the immediate-link flow: the entries of the matcher's *)
(* result for a candidate whose displayText is the phrase, ignoring case.  *)
(***************************************************************************)
ExactAt(list, phrase) ==
    {i \in 1..Len(list) : ToLowerCase(list[i].displayText) = ToLowerCase(phrase)}

ResultOf(idx, scan, c) == getSuggestions(idx, PhraseOf(scan, c))

\* the first entry of the result is such an entry
BestIsExact(idx, scan, c) == 1 \in ExactAt(ResultOf(idx, scan, c), PhraseOf(scan, c))

\* some entry of the result is such an entry
SomeExact(idx, scan, c) == ExactAt(ResultOf(idx, scan, c), PhraseOf(scan, c)) # {}

IsNoMatchNotice(n) == n \in {NoMatchNotice, NoValidPhraseNotice}

\* ed and nt are what the flow answers when exact holds the candidates that
\* have an entry with the phrase as displayText
LinksFirstOf(idx, scan, exact, ed, nt) ==
    /\ ed # NoEdit =>
          \E c \in exact :
              /\ \A d \in exact : ~Before(d, c)
              /\ LET phrase == PhraseOf(scan, c)
                     result == ResultOf(idx, scan, c)
                     hits == ExactAt(result, phrase)
                     first == CHOOSE i \in hits : \A j \in hits : i <= j
                 IN  /\ ed = [kind |-> "replaceRange",
                              text |-> quickLinkText(result[first], phrase),
                              start |-> scan.offset + PhraseStart(scan, c),
                              end |-> scan.offset + PhraseEnd(scan, c)]
                     /\ nt = LinkedNotice(result[first].displayText)
    /\ exact # {} => ed # NoEdit
    /\ exact = {} =>
          /\ ed = NoEdit
          /\ nt = IF scan.cursorWordIdx = -1 THEN NoValidPhraseNotice ELSE NoMatchNotice

(***************************************************************************)
(* C9 as stated.  When runQuickLink has answered, a replaced span is the   *)
(* first candidate, longest first and then leftmost, whose first result    *)
(* entry has the phrase as displayText ignoring case; when no candidate    *)
(* has such a first entry, nothing is replaced and a no-match notice is    *)
(* shown.                                                                  *)
(***************************************************************************)
C9_BestMatchIsFirstEntry ==
    uiPc = "linked" =>
        LET scan == QuickScan(line, cursor)
            cands == Candidates(scan)
        IN  /\ edit # NoEdit =>
                  \E c \in cands :
                      /\ edit.start = scan.offset + PhraseStart(scan, c)
                      /\ edit.end = scan.offset + PhraseEnd(scan, c)
                      /\ BestIsExact(index, scan, c)
                      /\ \A d \in cands : Before(d, c) => ~BestIsExact(index, scan, d)
            /\ (\A c \in cands : ~BestIsExact(index, scan, c)) =>
                  edit = NoEdit /\ IsNoMatchNotice(notice)

(***************************************************************************)
(* C9 amended.  When runQuickLink has answered, the replaced span is the   *)
(* first candidate, longest first and then leftmost, for which some entry  *)
(* of the matcher's result has the phrase as displayText ignoring case,    *)
(* and the link is made from the first such entry of the result; when no   *)
(* candidate has such an entry, nothing is replaced and a no-match notice  *)
(* is shown: "No valid phrase" when no word touches the cursor, "No        *)
(* matching note" otherwise.                                               *)
(***************************************************************************)
C9_FirstExactEntry ==
    uiPc = "linked" =>
        LET scan == QuickScan(line, cursor)
        IN  LinksFirstOf(index, scan,
                         {c \in Candidates(scan) : SomeExact(index, scan, c)}, edit, notice)

\* a span was replaced whose first result entry is not the exact one, after
\* a longer candidate was passed over
C9_Witness ==
    /\ uiPc = "linked"
    /\ edit # NoEdit
    /\ LET scan == QuickScan(line, cursor)
       IN  \E c, e \in Candidates(scan) :
               /\ edit.start = scan.offset + PhraseStart(scan, c)
               /\ edit.end = scan.offset + PhraseEnd(scan, c)
               /\ ~BestIsExact(index, scan, c)
               /\ e.span > c.span

(***************************************************************************)
(* C10.  The list the matcher returned holds no two entries with the same  *)
(* (type, notePath, target); each entry is the earliest occurrence of its  *)
(* triple in the prefix results followed by the fuzzy results, so an entry *)
(* under a key with the query as prefix has score 0.                       *)
(***************************************************************************)
C10_DedupKeepsEarliest ==
    uiPc = "suggested" =>
        LET q == normalizeText(context.query)
            all == prefixPass(index, q) \o fuzzyPass(index, q)
        IN  /\ \A i, j \in 1..Len(suggestions) :
                   i # j => ~SameTriple(suggestions[i], suggestions[j])
            /\ \A i \in 1..Len(suggestions) :
                   \E k \in 1..Len(all) :
                       /\ all[k] = suggestions[i]
                       /\ \A m \in 1..(k - 1) : ~SameTriple(all[m], all[k])
            /\ \A i \in 1..Len(suggestions) :
                   UnderPrefixKey(index, q, suggestions[i])
                       => suggestions[i].score = ScoreExact

\* an entry of the list was found by both passes
C10_Witness ==
    /\ uiPc = "suggested"
    /\ LET q == normalizeText(context.query)
           all == prefixPass(index, q) \o fuzzyPass(index, q)
       IN  \E i \in 1..Len(suggestions) : \E k, m \in 1..Len(all) :
               /\ SameTriple(all[k], suggestions[i]) /\ all[k].score = ScoreExact
               /\ SameTriple(all[m], suggestions[i]) /\ all[m].score = ScoreFuzzy

(***************************************************************************)
(* C11.  The sentence delimited around the cursor and every candidate      *)
(* phrase hold no sentence terminator (. ! ?), in both flows; so the span  *)
(* onTrigger returned and the span runQuickLink replaced hold none.        *)
(***************************************************************************)
HasTerminator(s) == \E i \in 1..Len(s) : IsTerminator(s[i])

NoTerminatorIn(scan) ==
    /\ ~HasTerminator(scan.sentence)
    /\ \A c \in Candidates(scan) : ~HasTerminator(PhraseOf(scan, c))

C11_SentenceBoundary ==
    /\ uiPc = "triggered" =>
          /\ NoTerminatorIn(TriggerScan(line, cursor))
          /\ context # NoTrigger =>
                /\ ~HasTerminator(context.query)
                /\ ~HasTerminator(Substring(line, context.start, context.end))
    /\ uiPc = "linked" =>
          /\ NoTerminatorIn(QuickScan(line, cursor))
          /\ edit # NoEdit => ~HasTerminator(Substring(line, edit.start, edit.end))

\* a span was returned on a line that has a word on the other side of a
\* sentence terminator
C11_Witness ==
    /\ uiPc = "triggered"
    /\ context # NoTrigger
    /\ \E p, w \in 0..(Len(line) - 1) :
           /\ IsTerminator(CharAt(line, p))
           /\ IsWordChar(CharAt(line, w))
           /\ (context.end <= p /\ p < w) \/ (w < p /\ p < context.start)

(***************************************************************************)
(* C12: the startup retry is bounded: a load whose build left the index    *)
(* empty schedules one retry, and the load that retry caused is the last   *)
(* attempt (maxStartupAttempts = 2): it schedules no further retry, even   *)
(* if the index is still empty.                                            *)
(***************************************************************************)
C12_RetryBounded ==
    lastEvent.op = "loaded" /\ lastEvent.byRetry => ~lastEvent.retry

(***************************************************************************)
(* C13: when the index is still empty after the load the retry caused, an  *)
(* initialization-failure notice is shown (not the success notice, and     *)
(* not nothing) and the plugin stays loaded with its empty index.          *)
(***************************************************************************)
C13_FailureNotice ==
    lastEvent.op = "loaded" /\ lastEvent.byRetry /\ index = <<>> =>
        /\ lastEvent.notice \notin {NoNotice, InitializedNotice}
        /\ ~lastEvent.retry

(***************************************************************************)
(* C14: trigger gating.  With a non-empty triggerKey, onTrigger returns a  *)
(* span only when the triggerKey.length characters of the line right       *)
(* before the cursor are the triggerKey; otherwise it returns null         *)
(* whatever the index holds.  When the key is empty, or was just typed,    *)
(* the scan runs: a span is returned exactly when some candidate phrase    *)
(* around the cursor has a match.                                          *)
(***************************************************************************)
TriggerTyped(ln, ch, key) ==
    /\ ch >= Len(key)
    /\ \A i \in 1..Len(key) : CharAt(ln, ch - Len(key) + i - 1) = key[i]

C14_TriggerGating ==
    uiPc = "triggered" =>
        IF triggerKey # <<>> /\ ~TriggerTyped(line, cursor, triggerKey)
        THEN context = NoTrigger
        ELSE LET scan == TriggerScan(line, cursor)
             IN  context # NoTrigger <=>
                     \E c \in Candidates(scan) : HasMatch(index, scan, c)

\* a span was returned right after the trigger key was typed
C14_Witness ==
    /\ uiPc = "triggered"
    /\ triggerKey # <<>>
    /\ TriggerTyped(line, cursor, triggerKey)
    /\ context # NoTrigger

\* the key is set and was not typed before the cursor, which stands in a
\* phrase that has a match
C14_WitnessRejected ==
    /\ uiPc = "triggered"
    /\ triggerKey # <<>>
    /\ ~TriggerTyped(line, cursor, triggerKey)
    /\ onTriggerUngated(line, cursor, triggerKey, index) # NoTrigger

(***************************************************************************)
(* C15: the re-entrancy guard of the full rebuild.  A call of              *)
(* buildFullIndex during a rebuild is dropped: it leaves the index, the    *)
(* files still to index and the flag as they are, and nothing is queued    *)
(* (the rebuild in progress ends with the index of one full build).  The   *)
(* flag is set exactly while the one rebuild runs, it is false once the    *)
(* rebuild has ended, and a call made then is served: it clears the index  *)
(* and starts a rebuild.                                                   *)
(***************************************************************************)
C15_RebuildGuard ==
    [][/\ lastEvent'.op = "rebuild" /\ isIndexing =>
              /\ ~lastEvent'.served
              /\ index' = index
              /\ buildQueue' = buildQueue
              /\ isIndexing'
       /\ lastEvent'.op = "rebuild" /\ ~isIndexing =>
              /\ lastEvent'.served
              /\ index' = <<>>
              /\ isIndexing'
       /\ lastEvent'.op = "rebuilt" =>
              /\ ~isIndexing'
              /\ \E order \in FileOrders(MarkdownFiles(files)) :
                     index' = buildAll(<<>>, files, order)
       /\ isIndexing' <=> pluginPc' = "build"]_vars

\* a call was dropped while the rebuild had indexed one file and had
\* another one to index
C15_Witness ==
    /\ lastEvent.op = "rebuild"
    /\ ~lastEvent.served
    /\ index # <<>>
    /\ buildQueue # <<>>

(***************************************************************************)
(* C16: the frame of a rename.  Right after a rename event the index has   *)
(* the same keys in the same order and every bucket has as many entries    *)
(* as before; an entry of another document is unchanged; a tag, heading    *)
(* or block entry of the renamed document is in its place under its key    *)
(* with its type and target, its notePath the new path and its noteTitle   *)
(* the new base name; and no entry has the old path.                       *)
(***************************************************************************)
C16_RenameFrame ==
    [][lastEvent'.op = "rename" =>
        LET old == lastEvent'.oldPath
            new == lastEvent'.path
        IN  /\ Len(index') = Len(index)
            /\ \A i \in 1..Len(index) :
                 /\ index'[i].key = index[i].key
                 /\ Len(index'[i].entries) = Len(index[i].entries)
                 /\ \A j \in 1..Len(index[i].entries) :
                      LET was == index[i].entries[j]
                          now == index'[i].entries[j]
                      IN  /\ was.notePath # old => now = was
                          /\ was.notePath = old /\ was.type # "title" =>
                                /\ now.type = was.type
                                /\ now.target = was.target
                                /\ now.notePath = new
                                /\ now.noteTitle = new.base
            /\ \A x \in EntriesOf(index') : x.entry.notePath # old]_vars

\* a rename of a document with a tag, heading or block entry, while the
\* index also holds an entry of another document
C16_Witness ==
    /\ lastEvent.op = "rename"
    /\ \E x, y \in EntriesOf(index) :
           /\ x.entry.notePath = lastEvent.path
           /\ x.entry.type # "title"
           /\ y.entry.notePath # lastEvent.path

(***************************************************************************)
(* The entries a document has by its path and its cached metadata, each    *)
(* with its key: none for a file that is not markdown; else the Title      *)
(* entry, a Tag entry for each tag of the frontmatter, a Heading entry     *)
(* for each heading and a Block entry for each section with an id.         *)
(***************************************************************************)
KeyedEntry(text, e) == [key |-> normalizeText(text), entry |-> e]

DerivedEntries(fs, path) ==
    IF path.ext # "md" THEN {}
    ELSE LET title == path.base
             meta == getFileCache(fs, [path |-> path])
             tags == IF meta = NoMetadata THEN <<>> ELSE TagList(meta.tags)
             headings == IF meta = NoMetadata THEN <<>> ELSE meta.headings
             sections == IF meta = NoMetadata THEN <<>> ELSE meta.sections
         IN  {KeyedEntry(title, TitleEntry(path, title))}
                 \cup {KeyedEntry(Trim(tags[i]), TagEntry(path, title, Trim(tags[i]))) :
                          i \in 1..Len(tags)}
                 \cup {KeyedEntry(headings[i], HeadingEntry(path, title, headings[i])) :
                          i \in 1..Len(headings)}
                 \cup {KeyedEntry(sections[i], BlockEntry(path, title, sections[i])) :
                          i \in {k \in 1..Len(sections) : sections[k] # <<>>}}

EntriesAt(idx, path) == {x \in EntriesOf(idx) : x.entry.notePath = path}

(***************************************************************************)
(* C17: the debounced re-index of a document is remove-then-insert, in     *)
(* one step.  Right after the timer's callback the entries of the          *)
(* document are exactly the ones derived from its path and its cached      *)
(* metadata, each once, and the entries of the other documents are the     *)
(* ones of before.  The callback is one task of the event loop: no         *)
(* matcher call sees the index between the removal and the insertion.      *)
(***************************************************************************)
C17_UpsertIsRemoveThenInsert ==
    [][lastEvent'.op = "callback" =>
        LET p == lastEvent'.path
        IN  /\ EntriesAt(index', p) = DerivedEntries(files, p)
            /\ \A i \in 1..Len(index') :
                 \A j, k \in 1..Len(index'[i].entries) :
                     /\ index'[i].entries[j].notePath = p
                     /\ index'[i].entries[j] = index'[i].entries[k]
                     => j = k
            /\ EntriesOf(index') \ EntriesAt(index', p)
                 = EntriesOf(index) \ EntriesAt(index, p)
            /\ index' = indexFile(deleteFromIndex(index, p), [path |-> p],
                                  getFileCache(files, [path |-> p]))]_vars

\* a re-index of a document with a tag, heading or block entry, while the
\* index also holds an entry of another document
C17_Witness ==
    /\ lastEvent.op = "callback"
    /\ \E x, y \in EntriesOf(index) :
           /\ x.entry.notePath = lastEvent.path
           /\ x.entry.type = "block"
           /\ y.entry.notePath # lastEvent.path

(***************************************************************************)
(* C18: malformed input gives no result.  The matcher returns the empty    *)
(* sequence for a query whose normalized form is empty, here the line and  *)
(* every candidate phrase of the scan, whatever the index holds.  On an    *)
(* empty line, or with the cursor beyond the end of the line, onTrigger    *)
(* returns null and runQuickLink replaces nothing.  No editor operation    *)
(* changes the index.                                                      *)
(***************************************************************************)
EmptyQueryGivesNothing(idx, scan) ==
    \A c \in Candidates(scan) :
        normalizeText(PhraseOf(scan, c)) = <<>> => getSuggestions(idx, PhraseOf(scan, c)) = <<>>

Malformed(ln, ch) == ln = <<>> \/ ch > Len(ln)

C18_Malformed ==
    /\ [](/\ uiPc # "idle" /\ normalizeText(line) = <<>> => getSuggestions(index, line) = <<>>
          /\ uiPc = "triggered" =>
                /\ EmptyQueryGivesNothing(index, TriggerScan(line, cursor))
                /\ Malformed(line, cursor) => context = NoTrigger
          /\ uiPc = "linked" =>
                /\ EmptyQueryGivesNothing(index, QuickScan(line, cursor))
                /\ Malformed(line, cursor) => edit = NoEdit)
    /\ [][uiPc' # "idle" => index' = index]_vars

\* the cursor is one beyond the end of a line that gives a suggestion with
\* the cursor at its end
C18_Witness ==
    /\ uiPc = "triggered"
    /\ cursor > Len(line)
    /\ onTrigger(line, Len(line), triggerKey, index) # NoTrigger

\* the scan has a candidate phrase whose normalized form is empty
C18_WitnessEmptyQuery ==
    /\ uiPc = "triggered"
    /\ \E c \in Candidates(TriggerScan(line, cursor)) :
           normalizeText(PhraseOf(TriggerScan(line, cursor), c)) = <<>>

(***************************************************************************)
(* C19: a deleted document is not resurrected.  While the plugin runs, no  *)
(* entry of the index has the path of a document that is not in the        *)
(* vault: after its delete event no later step brings its entries back,    *)
(* also when a debounced re-index of it was pending at the delete.         *)
(***************************************************************************)
C19_NoResurrection ==
    pluginPc = "run" =>
        \A x \in EntriesOf(index) : PathTaken(files, x.entry.notePath)

(***************************************************************************)
(* C20: incremental maintenance agrees with a full rebuild.  While the     *)
(* plugin runs and no re-index timer is pending, the index has the keys    *)
(* and, under each key, the set of entries that buildFullIndex leaves for  *)
(* the documents now in the vault.                                         *)
(***************************************************************************)
C20_AgreesWithFullRebuild ==
    pluginPc = "run" /\ timers = {} =>
        \E order \in FileOrders(MarkdownFiles(files)) :
            EntriesOf(index) = EntriesOf(buildAll(<<>>, files, order))

(***************************************************************************)
(* C21: a span is well-formed and touches the cursor.  The span onTrigger  *)
(* returns, the span selectSuggestion replaces and the span runQuickLink   *)
(* replaces satisfy 0 <= start < end <= line length and start <= cursor    *)
(* <= end; the span starts where a word token of the scan starts and ends  *)
(* where one ends, that is: its first and last characters are \w           *)
(* characters and the characters next to it on either side are not.        *)
(***************************************************************************)
WellFormedSpan(ln, ch, from, to) ==
    /\ 0 <= from /\ from < to /\ to <= Len(ln)
    /\ from <= ch /\ ch <= to
    /\ IsWordChar(CharAt(ln, from)) /\ ~IsWordChar(CharAt(ln, from - 1))
    /\ IsWordChar(CharAt(ln, to - 1)) /\ ~IsWordChar(CharAt(ln, to))

AtTokens(scan, from, to) ==
    \E i, j \in 1..Len(scan.words) :
        /\ i <= j
        /\ from = scan.offset + scan.words[i].start
        /\ to = scan.offset + scan.words[j].end

C21_SpanWellFormed ==
    /\ uiPc = "triggered" /\ context # NoTrigger =>
          /\ WellFormedSpan(line, cursor, context.start, context.end)
          /\ AtTokens(TriggerScan(line, cursor), context.start, context.end)
    /\ uiPc = "selected" =>
          /\ WellFormedSpan(line, cursor, edit.start, edit.end)
          /\ AtTokens(TriggerScan(line, cursor), edit.start, edit.end)
    /\ uiPc = "linked" /\ edit # NoEdit =>
          /\ WellFormedSpan(line, cursor, edit.start, edit.end)
          /\ AtTokens(QuickScan(line, cursor), edit.start, edit.end)

\* a span inside the line, with text on both sides, returned with the cursor
\* at its end
C21_Witness ==
    /\ uiPc = "triggered"
    /\ context # NoTrigger
    /\ context.start > 0
    /\ context.end < Len(line)
    /\ cursor = context.end

\* runQuickLink replaced a span after the start of the line, with the cursor
\* at the start of the span
C21_WitnessLinked ==
    /\ uiPc = "linked"
    /\ edit # NoEdit
    /\ edit.start > 0
    /\ cursor = edit.start

=============================================================================
